---- MODULE Spec2Model ----
(***************************************************************************)
(* kms-reporter: classification of etcd secret records (ParseEtcdObject),  *)
(* the batch analysis (analyzeSecretEncryption), the resolution of the     *)
(* expected provider sequence (getLatestProviderSeq), the Read run and the *)
(* recorder's ConfigMap.                                                   *)
(*                                                                         *)
(* Strings are sequences of one-character strings, so that HasPrefix,      *)
(* Split, TrimPrefix and Atoi work on characters as the Go code does.      *)
(***************************************************************************)
EXTENDS Integers, Sequences, FiniteSets, TLC

VARIABLES
    pc,                 \* position of the operation under study
    kmsProviderName,    \* ReadOperation.kmsProviderName (flag kms-provider-name)
    k, v,               \* the key and value handed to ParseEtcdObject
    parsed,             \* what ParseEtcdObject returned: encrypted, secret, seq, err
    kvs,                \* the batch handed to analyzeSecretEncryption (resp.Kvs)
    latestProviderSeq,  \* the expected sequence handed to analyzeSecretEncryption
    idx,                \* analyzeSecretEncryption: index of the next record of the loop
    result,             \* analyzeSecretEncryption: the EncryptionAnalysisResult being built
    etcdCli,            \* ReadOperation.etcdCli: "nil" or "client"
    etcdKvs,            \* etcd: the records under /registry/secrets
    encCM,              \* the cluster's encryption-provider-config ConfigMap
    reportCM,           \* the cluster's kms-reporter ConfigMap
    lastOp,             \* the last step: "init", "Read" or a change of the environment
    run,                \* the last Read run: what it was given, called and returned
    resolved,           \* what getLatestProviderSeq returned: seq, err
    recCall,            \* the last Record call: its arguments, failures and outcome
    drv                 \* main and setupKmsReporter: position, context, ticker, client

worldVars == <<etcdCli, etcdKvs, encCM, reportCM>>
runVars == <<lastOp, run>>
unitVars == <<resolved, recCall, drv>>

vars == <<pc, kmsProviderName, k, v, parsed, kvs, latestProviderSeq, idx, result,
          etcdCli, etcdKvs, encCM, reportCM, lastOp, run, resolved, recCall, drv>>

-----------------------------------------------------------------------------
(* Bounds of the model *)

MaxKeyLen == 5
MaxTailLen == 3
MaxBatch == 3
MaxSnapshot == 2
MaxEntries == 3
MaxTicks == 3

-----------------------------------------------------------------------------
(* Strings *)

SeqsUpTo(S, n) == UNION {[1..m -> S] : m \in 0..n}

Range(s) == {s[i] : i \in 1..Len(s)}

\* strings.HasPrefix
HasPrefix(s, prefix) ==
    /\ Len(s) >= Len(prefix)
    /\ SubSeq(s, 1, Len(prefix)) = prefix

\* strings.TrimLeft: every leading character of the cutset removed
RECURSIVE TrimLeft(_, _)
TrimLeft(s, cutset) ==
    IF s # <<>> /\ Head(s) \in Range(cutset) THEN TrimLeft(Tail(s), cutset) ELSE s

\* strings.TrimPrefix: s without the leading prefix, s itself when it has none
TrimPrefix(s, prefix) ==
    IF HasPrefix(s, prefix) THEN SubSeq(s, Len(prefix) + 1, Len(s)) ELSE s

\* strings.Split(s, sep) for a one-character sep: the pieces between the
\* separators, empty pieces kept; one piece (s itself) when s has no separator.
RECURSIVE SplitFrom(_, _, _, _, _)
SplitFrom(s, sep, i, cur, acc) ==
    IF i > Len(s) THEN Append(acc, cur)
    ELSE IF s[i] = sep THEN SplitFrom(s, sep, i + 1, <<>>, Append(acc, cur))
    ELSE SplitFrom(s, sep, i + 1, Append(cur, s[i]), acc)

\* strings.FieldsFunc: the non-empty pieces only
RECURSIVE DropEmpty(_)
DropEmpty(parts) ==
    IF parts = <<>> THEN <<>>
    ELSE IF Head(parts) = <<>> THEN DropEmpty(Tail(parts))
    ELSE <<Head(parts)>> \o DropEmpty(Tail(parts))

SplitNonEmpty(s, sep) == DropEmpty(SplitFrom(s, sep, 1, <<>>, <<>>))

Split(s, sep) == SplitFrom(s, sep, 1, <<>>, <<>>)

Digits == {"0", "1", "2", "3", "4", "5", "6", "7", "8", "9"}

DigitVal(c) ==
    CASE c = "0" -> 0 [] c = "1" -> 1 [] c = "2" -> 2 [] c = "3" -> 3
      [] c = "4" -> 4 [] c = "5" -> 5 [] c = "6" -> 6 [] c = "7" -> 7
      [] c = "8" -> 8 [] c = "9" -> 9

\* the value of a string of digits, most significant first
RECURSIVE DecVal(_)
DecVal(ds) ==
    IF ds = <<>> THEN 0
    ELSE 10 * DecVal(SubSeq(ds, 1, Len(ds) - 1)) + DigitVal(ds[Len(ds)])

RECURSIVE StripZeros(_)
StripZeros(ds) ==
    IF ds # <<>> /\ Head(ds) = "0" THEN StripZeros(Tail(ds)) ELSE ds

\* ds <= lim for two digit strings of the same length
RECURSIVE DigitsLeq(_, _)
DigitsLeq(ds, lim) ==
    IF ds = <<>> THEN TRUE
    ELSE IF DigitVal(Head(ds)) < DigitVal(Head(lim)) THEN TRUE
    ELSE IF DigitVal(Head(ds)) > DigitVal(Head(lim)) THEN FALSE
    ELSE DigitsLeq(Tail(ds), Tail(lim))

\* 2^63 - 1 and 2^63: the largest magnitudes of a positive and a negative int
MaxIntDigits ==
    <<"9","2","2","3","3","7","2","0","3","6","8","5","4","7","7","5","8","0","7">>
MinIntDigits ==
    <<"9","2","2","3","3","7","2","0","3","6","8","5","4","7","7","5","8","0","8">>

\* strconv.Atoi: an optional sign, then one or more decimal digits, the value
\* within the range of int; anything else is an error (ok = FALSE).
Atoi(s) ==
    LET signed == s # <<>> /\ Head(s) \in {"+", "-"}
        neg    == s # <<>> /\ Head(s) = "-"
        body   == IF signed THEN Tail(s) ELSE s
        sig    == StripZeros(body)
        lim    == IF neg THEN MinIntDigits ELSE MaxIntDigits
        syntax == body # <<>> /\ \A i \in 1..Len(body) : body[i] \in Digits
        range  == \/ Len(sig) < Len(lim)
                  \/ Len(sig) = Len(lim) /\ DigitsLeq(sig, lim)
    IN  IF syntax /\ range
        THEN [ok |-> TRUE, n |-> IF neg THEN 0 - DecVal(sig) ELSE DecVal(sig)]
        ELSE [ok |-> FALSE, n |-> 0]

\* fmt.Sprintf("%s/%s", a, b)
SprintfSlash(a, b) == a \o <<"/">> \o b

-----------------------------------------------------------------------------
(* pkg/utils: ParseEtcdObject *)

\* "k8s:enc:", the prefix of every encryption scheme
anySchemePrefix == <<"k","8","s",":","e","n","c",":">>

etcdObjectValueKmsEncryptedPrefix ==
    <<"k","8","s",":","e","n","c",":","k","m","s",":">>

NoError == "nil"
ErrInvalidKey == "invalid key format"
ErrInvalidValue == "invalid encrypted value format"
ErrConvertSeq == "failed to convert seq to int"

ParseReturn(encrypted, secret, seq, err) ==
    [encrypted |-> encrypted, secret |-> secret, seq |-> seq, err |-> err]

\* a short envelope taken for a plaintext value
ParseSeqLenient(encrypted, secret, value, providerName) ==
    IF encrypted /\ Len(Split(value, ":")) >= 6
    THEN
      LET seqInt == Atoi(TrimPrefix(Split(value, ":")[5], providerName))
      IN  IF ~seqInt.ok
          THEN ParseReturn(encrypted, secret, 0, ErrConvertSeq)
          ELSE ParseReturn(encrypted, secret, seqInt.n, NoError)
    ELSE ParseReturn(FALSE, secret, 0, NoError)

\* lines 35-50: the sequence number of an encrypted value, 0 for a plaintext one
ParseSeq(encrypted, secret, value, providerName) ==
    IF encrypted
    THEN
      LET valueParts == Split(value, ":")
      IN  IF Len(valueParts) < 6
          THEN ParseReturn(encrypted, secret, 0, ErrInvalidValue)
          ELSE
            LET seqStr == TrimPrefix(valueParts[5], providerName)
                seqInt == Atoi(seqStr)
            IN  IF ~seqInt.ok
                THEN ParseReturn(encrypted, secret, 0, ErrConvertSeq)
                ELSE ParseReturn(encrypted, secret, seqInt.n, NoError)
    ELSE ParseReturn(encrypted, secret, 0, NoError)

\* the value parsed before the key is checked
ParseEtcdObjectValueFirst(key, value, providerName) ==
    LET encrypted == HasPrefix(value, etcdObjectValueKmsEncryptedPrefix)
        keyParts  == Split(key, "/")
        r         == ParseSeq(encrypted, <<>>, value, providerName)
    IN  IF r.err # NoError THEN r
        ELSE IF Len(keyParts) < 5
        THEN ParseReturn(encrypted, <<>>, 0, ErrInvalidKey)
        ELSE [r EXCEPT !.secret = SprintfSlash(keyParts[4], keyParts[5])]

ParseEtcdObject(key, value, providerName) ==
    LET encrypted == HasPrefix(value, etcdObjectValueKmsEncryptedPrefix)
        keyParts  == Split(key, "/")
    IN  IF Len(keyParts) < 5
        THEN ParseReturn(encrypted, <<>>, 0, ErrInvalidKey)
        ELSE ParseSeq(encrypted, SprintfSlash(keyParts[4], keyParts[5]),
                      value, providerName)

-----------------------------------------------------------------------------
(* pkg/reader: analyzeSecretEncryption *)

identityProviderSeq == -1

NoResult == [EncryptedSecrets |-> <<>>, UnencryptedSecrets |-> <<>>,
             AllSecretsUseLatestProvider |-> TRUE]

\* only an older sequence counts as a difference
SeqOlder(providerSeq, latestSeq) == providerSeq < latestSeq

\* whether the record's sequence number differs from the expected one
SeqDiffers(providerSeq, latestSeq) == providerSeq # latestSeq

\* the else of `if encrypted` is missing: every record is listed as unencrypted
analyzeStepNoElse(res, kv, latestSeq, providerName) ==
    LET p == ParseEtcdObject(kv.Key, kv.Value, providerName)
    IN  IF p.err # NoError
        THEN res
        ELSE
          LET flag == IF SeqDiffers(p.seq, latestSeq)
                      THEN FALSE
                      ELSE res.AllSecretsUseLatestProvider
          IN  [res EXCEPT !.AllSecretsUseLatestProvider = flag,
                          !.EncryptedSecrets =
                              IF p.encrypted THEN Append(@, p.secret) ELSE @,
                          !.UnencryptedSecrets = Append(@, p.secret)]

\* the sequence is compared before the error is looked at
analyzeStepCompareFirst(res, kv, latestSeq, providerName) ==
    LET p == ParseEtcdObject(kv.Key, kv.Value, providerName)
        flag == IF SeqDiffers(p.seq, latestSeq)
                THEN FALSE
                ELSE res.AllSecretsUseLatestProvider
    IN  IF p.err # NoError
        THEN [res EXCEPT !.AllSecretsUseLatestProvider = flag]
        ELSE IF p.encrypted
        THEN [res EXCEPT !.AllSecretsUseLatestProvider = flag,
                         !.EncryptedSecrets = Append(@, p.secret)]
        ELSE [res EXCEPT !.AllSecretsUseLatestProvider = flag,
                         !.UnencryptedSecrets = Append(@, p.secret)]

\* one iteration of the loop over kvs: the record kv against the expected seq
\* an iteration that keeps one entry per identity in each list
analyzeStepOncePerIdentity(res, kv, latestSeq, providerName) ==
    LET p == ParseEtcdObject(kv.Key, kv.Value, providerName)
    IN  IF p.err # NoError
        THEN res
        ELSE
          LET flag == IF SeqDiffers(p.seq, latestSeq)
                      THEN FALSE
                      ELSE res.AllSecretsUseLatestProvider
          IN  IF p.encrypted
              THEN [res EXCEPT !.AllSecretsUseLatestProvider = flag,
                               !.EncryptedSecrets =
                                   IF p.secret \in Range(@) THEN @
                                   ELSE Append(@, p.secret)]
              ELSE [res EXCEPT !.AllSecretsUseLatestProvider = flag,
                               !.UnencryptedSecrets =
                                   IF p.secret \in Range(@) THEN @
                                   ELSE Append(@, p.secret)]

\* an iteration that flips the flag back when a record has the expected sequence
analyzeStepLastDecides(res, kv, latestSeq, providerName) ==
    LET p == ParseEtcdObject(kv.Key, kv.Value, providerName)
    IN  IF p.err # NoError
        THEN res
        ELSE
          LET flag == ~SeqDiffers(p.seq, latestSeq)
          IN  IF p.encrypted
              THEN [res EXCEPT !.AllSecretsUseLatestProvider = flag,
                               !.EncryptedSecrets = Append(@, p.secret)]
              ELSE [res EXCEPT !.AllSecretsUseLatestProvider = flag,
                               !.UnencryptedSecrets = Append(@, p.secret)]

analyzeStep(res, kv, latestSeq, providerName) ==
    LET p == ParseEtcdObject(kv.Key, kv.Value, providerName)
    IN  IF p.err # NoError
        THEN res
        ELSE
          LET flag == IF SeqDiffers(p.seq, latestSeq)
                      THEN FALSE
                      ELSE res.AllSecretsUseLatestProvider
          IN  IF p.encrypted
              THEN [res EXCEPT !.AllSecretsUseLatestProvider = flag,
                               !.EncryptedSecrets = Append(@, p.secret)]
              ELSE [res EXCEPT !.AllSecretsUseLatestProvider = flag,
                               !.UnencryptedSecrets = Append(@, p.secret)]

RECURSIVE analyzeFrom(_, _, _, _, _)
analyzeFrom(res, batch, i, latestSeq, providerName) ==
    IF i > Len(batch) THEN res
    ELSE analyzeFrom(analyzeStep(res, batch[i], latestSeq, providerName),
                     batch, i + 1, latestSeq, providerName)

analyzeSecretEncryption(batch, latestSeq, providerName) ==
    analyzeFrom(NoResult, batch, 1, latestSeq, providerName)

-----------------------------------------------------------------------------
(* pkg/reader: getLatestProviderSeq *)

encryptionConfigYAMLKey == "encryption-provider-config.yaml"

ErrGetEncryptionCM == "failed to get encryption-provider-config ConfigMap"
ErrNoYAMLKey == "encryption-provider-config.yaml not found in ConfigMap data"
ErrUnmarshal == "failed to unmarshal encryption configuration"

\* a provider entry: the KMS pointer is a sequence of at most one KMSProvider
KmsProvider(name) == [KMS |-> <<[Name |-> name]>>, Identity |-> FALSE]
IdentityOnly == [KMS |-> <<>>, Identity |-> TRUE]

\* the length of the run of digits of s that starts at position i
RECURSIVE DigitRun(_, _)
DigitRun(s, i) ==
    IF i <= Len(s) /\ s[i] \in Digits THEN 1 + DigitRun(s, i + 1) ELSE 0

\* where the regexp <prefix>(\d+) matches in s: the prefix, then a digit. The
\* regexp is not anchored, and the prefix is taken literally: it is a prefix
\* without regexp metacharacters.
MatchStarts(s, prefix) ==
    {i \in 1..Len(s) :
        /\ HasPrefix(SubSeq(s, i, Len(s)), prefix)
        /\ DigitRun(s, i + Len(prefix)) >= 1}

\* regexp.FindStringSubmatch: the leftmost match and its group of digits (the
\* longest run), the empty sequence when nothing matches
FindStringSubmatch(s, prefix) ==
    IF MatchStarts(s, prefix) = {} THEN <<>>
    ELSE
      LET i == CHOOSE x \in MatchStarts(s, prefix) :
                   \A y \in MatchStarts(s, prefix) : x <= y
          d == i + Len(prefix)
          n == DigitRun(s, d)
      IN  <<SubSeq(s, i, d + n - 1), SubSeq(s, d, d + n - 1)>>

\* the loops over the resources and their providers, flattened in document order
RECURSIVE AllProviders(_)
AllProviders(resources) ==
    IF resources = <<>> THEN <<>>
    ELSE Head(resources).Providers \o AllProviders(Tail(resources))

\* a scan in which a later KMS provider that matches replaces an earlier one
RECURSIVE lastKmsSeq(_, _, _)
lastKmsSeq(providers, j, prefix) ==
    IF j > Len(providers) THEN [seq |-> identityProviderSeq, err |-> NoError]
    ELSE
      LET later == lastKmsSeq(providers, j + 1, prefix)
          provider == providers[j]
      IN  IF later.seq # identityProviderSeq \/ provider.KMS = <<>> THEN later
          ELSE
            LET matches == FindStringSubmatch(provider.KMS[1].Name, prefix)
            IN  IF Len(matches) # 2 \/ ~Atoi(matches[2]).ok THEN later
                ELSE [seq |-> Atoi(matches[2]).n, err |-> NoError]

\* a scan in which a KMS provider whose name does not match counts as sequence 0
RECURSIVE firstKmsSeqLenient(_, _, _)
firstKmsSeqLenient(providers, j, prefix) ==
    IF j > Len(providers) THEN [seq |-> identityProviderSeq, err |-> NoError]
    ELSE
      LET provider == providers[j]
      IN  IF provider.KMS = <<>> THEN firstKmsSeqLenient(providers, j + 1, prefix)
          ELSE
            LET matches == FindStringSubmatch(provider.KMS[1].Name, prefix)
            IN  IF Len(matches) # 2 THEN [seq |-> 0, err |-> NoError]
                ELSE IF ~Atoi(matches[2]).ok
                THEN firstKmsSeqLenient(providers, j + 1, prefix)
                ELSE [seq |-> Atoi(matches[2]).n, err |-> NoError]

\* the first KMS provider whose name matches and whose digits convert
RECURSIVE firstKmsSeq(_, _, _)
firstKmsSeq(providers, j, prefix) ==
    IF j > Len(providers) THEN [seq |-> identityProviderSeq, err |-> NoError]
    ELSE
      LET provider == providers[j]
      IN  IF provider.KMS = <<>> THEN firstKmsSeq(providers, j + 1, prefix)
          ELSE
            LET matches == FindStringSubmatch(provider.KMS[1].Name, prefix)
            IN  IF Len(matches) # 2 THEN firstKmsSeq(providers, j + 1, prefix)
                ELSE
                  LET providerSeq == Atoi(matches[2])
                  IN  IF ~providerSeq.ok
                      THEN firstKmsSeq(providers, j + 1, prefix)
                      ELSE [seq |-> providerSeq.n, err |-> NoError]

\* a failed resolution answered with the identity sentinel instead of an error
getLatestProviderSeqDefaulting(getFails, cm, prefix) ==
    IF getFails \/ ~cm.exists
         \/ encryptionConfigYAMLKey \notin DOMAIN cm.Data
         \/ ~cm.Data[encryptionConfigYAMLKey].parses
    THEN [seq |-> identityProviderSeq, err |-> NoError]
    ELSE firstKmsSeq(AllProviders(cm.Data[encryptionConfigYAMLKey].Resources),
                     1, prefix)

\* a ConfigMap without the YAML key read as an empty configuration
getLatestProviderSeqMissingKeyEmpty(getFails, cm, prefix) ==
    IF getFails \/ ~cm.exists
    THEN [seq |-> 0, err |-> ErrGetEncryptionCM]
    ELSE IF encryptionConfigYAMLKey \notin DOMAIN cm.Data
    THEN [seq |-> identityProviderSeq, err |-> NoError]
    ELSE IF ~cm.Data[encryptionConfigYAMLKey].parses
    THEN [seq |-> 0, err |-> ErrUnmarshal]
    ELSE firstKmsSeq(AllProviders(cm.Data[encryptionConfigYAMLKey].Resources),
                     1, prefix)

\* getFails: the Get of the ConfigMap fails; cm: the ConfigMap of the cluster
getLatestProviderSeq(getFails, cm, prefix) ==
    IF getFails \/ ~cm.exists
    THEN [seq |-> 0, err |-> ErrGetEncryptionCM]
    ELSE IF encryptionConfigYAMLKey \notin DOMAIN cm.Data
    THEN [seq |-> 0, err |-> ErrNoYAMLKey]
    ELSE IF ~cm.Data[encryptionConfigYAMLKey].parses
    THEN [seq |-> 0, err |-> ErrUnmarshal]
    ELSE firstKmsSeq(AllProviders(cm.Data[encryptionConfigYAMLKey].Resources),
                     1, prefix)

-----------------------------------------------------------------------------
(* pkg/recorder: formatSecretLists, Record, createConfigMap, updateConfigMap *)

allSecretsPattern == <<"A","L","L","_","S","E","C","R","E","T","S">>
encryptedSecretsKey == "ENCRYPTED"
unencryptedSecretsKey == "UNENCRYPTED"
encryptedByLatestProviderKey == "ENCRYPTED_BY_LATEST_SEQ"

ErrGetCM == "failed to get ConfigMap"
ErrCreateCM == "failed to create ConfigMap"
ErrUpdateCM == "failed to update ConfigMap"
Panic == "panic: assignment to entry in nil map"

\* strings.Join
RECURSIVE Join(_, _)
Join(list, sep) ==
    IF list = <<>> THEN <<>>
    ELSE IF Len(list) = 1 THEN list[1]
    ELSE list[1] \o sep \o Join(Tail(list), sep)

\* fmt.Sprintf("%t", b)
SprintfBool(b) == IF b THEN <<"t","r","u","e">> ELSE <<"f","a","l","s","e">>

\* the lists joined whatever their lengths, without the ALL_SECRETS pattern
formatSecretListsJoined(encryptedSecrets, unencryptedSecrets) ==
    <<Join(encryptedSecrets, <<",">>), Join(unencryptedSecrets, <<",">>)>>

formatSecretLists(encryptedSecrets, unencryptedSecrets) ==
    LET hasEncrypted   == Len(encryptedSecrets) > 0
        hasUnencrypted == Len(unencryptedSecrets) > 0
    IN  IF hasEncrypted /\ hasUnencrypted
        THEN <<Join(encryptedSecrets, <<",">>), Join(unencryptedSecrets, <<",">>)>>
        ELSE IF ~hasEncrypted /\ hasUnencrypted THEN <<<<>>, allSecretsPattern>>
        ELSE IF hasEncrypted /\ ~hasUnencrypted THEN <<allSecretsPattern, <<>>>>
        ELSE <<<<>>, <<>>>>

\* a Go map as a function: m[key] = val and delete(m, key)
MapPut(m, key, val) ==
    [x \in DOMAIN m \cup {key} |-> IF x = key THEN val ELSE m[x]]
MapDelete(m, key) == [x \in DOMAIN m \ {key} |-> m[x]]

EmptyMap == [x \in {} |-> <<>>]

\* a ConfigMap of the cluster: absent, or present with a data map that may be nil
AbsentCM == [exists |-> FALSE, nilData |-> TRUE, Data |-> EmptyMap]
PresentCM(data) == [exists |-> TRUE, nilData |-> FALSE, Data |-> data]
NoDataCM == [exists |-> TRUE, nilData |-> TRUE, Data |-> EmptyMap]

\* a create that never adds the key of the latest-provider status
createConfigMapNoFlag(stored, encryptedValue, unencryptedValue, allSecretsEncrypted, allSecretsUseLatestProvider, writeFails) ==
    LET base == MapPut(MapPut(EmptyMap, encryptedSecretsKey, encryptedValue),
                       unencryptedSecretsKey, unencryptedValue)
    IN  IF writeFails THEN [err |-> ErrCreateCM, cm |-> stored]
        ELSE [err |-> NoError, cm |-> PresentCM(base)]

\* the outcome of a call: its error and the ConfigMap it leaves in the cluster
createConfigMap(stored, encryptedValue, unencryptedValue, allSecretsEncrypted, allSecretsUseLatestProvider, writeFails) ==
    LET base == MapPut(MapPut(EmptyMap, encryptedSecretsKey, encryptedValue),
                       unencryptedSecretsKey, unencryptedValue)
        data == IF allSecretsEncrypted
                THEN MapPut(base, encryptedByLatestProviderKey,
                            SprintfBool(allSecretsUseLatestProvider))
                ELSE base
    IN  IF writeFails THEN [err |-> ErrCreateCM, cm |-> stored]
        ELSE [err |-> NoError, cm |-> PresentCM(data)]

\* an update that leaves the flag of an earlier report in place
updateConfigMapKeepFlag(configMap, encryptedValue, unencryptedValue, allSecretsEncrypted, allSecretsUseLatestProvider, writeFails) ==
    IF configMap.nilData THEN [err |-> Panic, cm |-> configMap]
    ELSE
      LET base == MapPut(MapPut(configMap.Data, encryptedSecretsKey, encryptedValue),
                         unencryptedSecretsKey, unencryptedValue)
          data == IF allSecretsEncrypted
                  THEN MapPut(base, encryptedByLatestProviderKey,
                              SprintfBool(allSecretsUseLatestProvider))
                  ELSE base
      IN  IF writeFails THEN [err |-> ErrUpdateCM, cm |-> configMap]
          ELSE [err |-> NoError, cm |-> PresentCM(data)]

updateConfigMap(configMap, encryptedValue, unencryptedValue, allSecretsEncrypted, allSecretsUseLatestProvider, writeFails) ==
    IF configMap.nilData THEN [err |-> Panic, cm |-> configMap]
    ELSE
      LET base == MapPut(MapPut(configMap.Data, encryptedSecretsKey, encryptedValue),
                         unencryptedSecretsKey, unencryptedValue)
          data == IF allSecretsEncrypted
                  THEN MapPut(base, encryptedByLatestProviderKey,
                              SprintfBool(allSecretsUseLatestProvider))
                  ELSE MapDelete(base, encryptedByLatestProviderKey)
      IN  IF writeFails THEN [err |-> ErrUpdateCM, cm |-> configMap]
          ELSE [err |-> NoError, cm |-> PresentCM(data)]

\* stored: the kms-reporter ConfigMap of the cluster; getFails: the lookup fails
\* with an error other than NotFound; writeFails: the Create or Update fails
Record(stored, getFails, writeFails, encryptedSecrets, unencryptedSecrets, allSecretsUseLatestProvider) ==
    LET allSecretsEncrypted == Len(unencryptedSecrets) = 0
        values == formatSecretLists(encryptedSecrets, unencryptedSecrets)
    IN  IF getFails THEN [err |-> ErrGetCM, cm |-> stored]
        ELSE IF ~stored.exists
        THEN createConfigMap(stored, values[1], values[2], allSecretsEncrypted,
                             allSecretsUseLatestProvider, writeFails)
        ELSE updateConfigMap(stored, values[1], values[2], allSecretsEncrypted,
                             allSecretsUseLatestProvider, writeFails)

-----------------------------------------------------------------------------
(* pkg/reader: ReadOperation.Read *)

ErrNilClient == "etcd client is nil"
ErrEtcdGet == "failed to get key from etcd"
ErrLatestSeq == "failed to get latest provider seq"
ErrRecorder == "failed to store secret encryption status in recorder"

NoFaults == [etcdGet |-> FALSE, encGet |-> FALSE, reportGet |-> FALSE, write |-> FALSE]
Faults == [etcdGet : BOOLEAN, encGet : BOOLEAN, reportGet : BOOLEAN, write : BOOLEAN]

RecordArgs(res) ==
    [encryptedSecrets |-> res.EncryptedSecrets,
     unencryptedSecrets |-> res.UnencryptedSecrets,
     allSecretsUseLatestProvider |-> res.AllSecretsUseLatestProvider]

\* the record of a run: the failures of its external calls, the kms-reporter
\* ConfigMap it found (before) and left (report), its external calls in order,
\* the snapshot, the resolved sequence and the analysis it worked on, the
\* arguments it gave to Record, what Record returned, and what it returned
ReadOutcome(f, before, err, callLog, snapshot, seq, res, args, recErr, report) ==
    [faults |-> f, before |-> before, err |-> err, calls |-> callLog,
     kvs |-> snapshot, seq |-> seq, result |-> res,
     recorded |-> args, recordErr |-> recErr, report |-> report]

NoRun == ReadOutcome(NoFaults, AbsentCM, NoError, <<>>, <<>>, 0, NoResult, <<>>,
                     NoError, AbsentCM)

\* lines 81-85: Record has returned rec
ReadRecorded(f, report, snapshot, seq, analysisResult, rec) ==
    ReadOutcome(f, report,
                IF rec.err = NoError THEN NoError
                ELSE IF rec.err = Panic THEN Panic
                ELSE ErrRecorder,
                <<"etcd.Get", "ConfigMaps.Get", "Record">>,
                snapshot, seq, analysisResult,
                <<RecordArgs(analysisResult)>>, rec.err, rec.cm)

\* lines 79-81: the analysis is handed to Record
ReadAnalyzed(f, report, snapshot, seq, analysisResult) ==
    ReadRecorded(f, report, snapshot, seq, analysisResult,
                 Record(report, f.reportGet, f.write,
                        analysisResult.EncryptedSecrets,
                        analysisResult.UnencryptedSecrets,
                        analysisResult.AllSecretsUseLatestProvider))

\* a run that analyzes against the identity sentinel whatever was resolved
ReadResolvedIdentity(f, report, snapshot, prefix, latest) ==
    IF latest.err # NoError
    THEN ReadOutcome(f, report, ErrLatestSeq, <<"etcd.Get", "ConfigMaps.Get">>,
                     snapshot, 0, NoResult, <<>>, NoError, report)
    ELSE ReadAnalyzed(f, report, snapshot, latest.seq,
                      analyzeSecretEncryption(snapshot, identityProviderSeq, prefix))

\* lines 74-79: getLatestProviderSeq has returned latest
ReadResolved(f, report, snapshot, prefix, latest) ==
    IF latest.err # NoError
    THEN ReadOutcome(f, report, ErrLatestSeq, <<"etcd.Get", "ConfigMaps.Get">>,
                     snapshot, 0, NoResult, <<>>, NoError, report)
    ELSE ReadAnalyzed(f, report, snapshot, latest.seq,
                      analyzeSecretEncryption(snapshot, latest.seq, prefix))

\* a run that resolves, analyzes and records an empty snapshot as any other
ReadRunEmptyRecorded(cli, snapshot, encryptionCM, report, f, prefix) ==
    IF cli = "nil"
    THEN ReadOutcome(f, report, ErrNilClient, <<>>, <<>>, 0, NoResult, <<>>,
                     NoError, report)
    ELSE IF f.etcdGet
    THEN ReadOutcome(f, report, ErrEtcdGet, <<"etcd.Get">>, <<>>, 0, NoResult,
                     <<>>, NoError, report)
    ELSE ReadResolved(f, report, snapshot, prefix,
                      getLatestProviderSeq(f.encGet, encryptionCM, prefix))

\* a run that goes on with the snapshot although the etcd Get failed
ReadRunIgnoreGetError(cli, snapshot, encryptionCM, report, f, prefix) ==
    IF cli = "nil"
    THEN ReadOutcome(f, report, ErrNilClient, <<>>, <<>>, 0, NoResult, <<>>,
                     NoError, report)
    ELSE IF Len(snapshot) = 0
    THEN ReadOutcome(f, report, NoError, <<"etcd.Get">>, snapshot, 0, NoResult,
                     <<>>, NoError, report)
    ELSE ReadResolved(f, report, snapshot, prefix,
                      getLatestProviderSeq(f.encGet, encryptionCM, prefix))

\* one run of Read: cli, the snapshot of etcd, the two ConfigMaps of the
\* cluster, the failures f of the external calls, the provider-name prefix
ReadRun(cli, snapshot, encryptionCM, report, f, prefix) ==
    IF cli = "nil"
    THEN ReadOutcome(f, report, ErrNilClient, <<>>, <<>>, 0, NoResult, <<>>,
                     NoError, report)
    ELSE IF f.etcdGet
    THEN ReadOutcome(f, report, ErrEtcdGet, <<"etcd.Get">>, <<>>, 0, NoResult,
                     <<>>, NoError, report)
    ELSE IF Len(snapshot) = 0
    THEN ReadOutcome(f, report, NoError, <<"etcd.Get">>, snapshot, 0, NoResult,
                     <<>>, NoError, report)
    ELSE ReadResolved(f, report, snapshot, prefix,
                      getLatestProviderSeq(f.encGet, encryptionCM, prefix))

-----------------------------------------------------------------------------
(* Inputs *)

\* a record of etcd (mvccpb.KeyValue)
Rec(key, value) == [Key |-> key, Value |-> value]

KeyChars == {"/", "a", "b"}
TailChars == {":", "p", "1", "0", "-"}

Keys == SeqsUpTo(KeyChars, MaxKeyLen)

\* "/r/s/n/a", "/r/s/n" (too short), "/r/s/n/a/b/c" (a name with slashes)
SampleKeys ==
    { <<"/","r","/","s","/","n","/","a">>,
      <<"/","r","/","s","/","n">>,
      <<"/","r","/","s","/","n","/","a","/","b","/","c">> }

\* how a value starts: nothing, the KMS envelope marker, the marker and the
\* version "v2", another k8s:enc: scheme, the marker without its last colon
KmsHead == <<"k","8","s",":","e","n","c",":","k","m","s",":">>
V2 == KmsHead \o <<"v","2",":">>

Heads ==
    { <<>>,
      KmsHead,
      V2,
      <<"k","8","s",":","e","n","c",":","a","e","s",":">>,
      <<"k","8","s",":","e","n","c",":","k","m","s">> }

Values == {h \o t : h \in Heads, t \in SeqsUpTo(TailChars, MaxTailLen)}

\* 2^63, one more than the largest int
TooBig ==
    <<"9","2","2","3","3","7","2","0","3","6","8","5","4","7","7","5","8","0","8">>

\* "plain", "k8s:enc:kms:v2:p1:data", "k8s:enc:kms:v2:p+1:", "k8s:enc:kms:v2:p12:d",
\* "k8s:enc:kms:v2:p9223372036854775808:" (one more than the largest int),
\* "k8s:enc:kms:v2:p:1:x" (a provider name holding a colon)
SampleValues ==
    { <<"p","l","a","i","n">>,
      V2 \o <<"p","1",":","d","a","t","a">>,
      V2 \o <<"p","+","1",":">>,
      V2 \o <<"p","1","2",":","d">>,
      V2 \o <<"p">> \o TooBig \o <<":">>,
      V2 \o <<"p",":","1",":","x">> }

\* the provider-name prefixes: "p", none, one that is a digit, one with a colon
ProviderNames == { <<"p">>, <<>>, <<"1">>, <<"p",":">> }

NoParse == [err |-> "not called"]
NoResolve == [err |-> "not called"]
NoCall == [err |-> "not called"]

\* the process before main calls setupKmsReporter: the context is live, no
\* etcd client and no ticker exist, no tick has fired and no Read has begun
DriverStart ==
    [pc |-> "start", cancelled |-> FALSE, etcd |-> "none", closes |-> 0,
     ticker |-> "none", tickPending |-> FALSE, ticks |-> 0, dropped |-> 0,
     startupReads |-> 0, tickReads |-> 0, running |-> 0, readLive |-> FALSE,
     from |-> "none", lastRead |-> "none", ret |-> "none"]

NoDriver == [DriverStart EXCEPT !.pc = "none"]

\* neither getLatestProviderSeq nor Record nor the driver is under study
NoUnit ==
    /\ resolved = NoResolve
    /\ recCall = NoCall
    /\ drv = NoDriver
-----------------------------------------------------------------------------
(* The Read runs of the reporter against a changing cluster *)

\* the records of etcd: an encrypted one, a plaintext one, one with a bad key
WorldRecords ==
    { Rec(<<"/","r","/","s","/","n","/","a">>, V2 \o <<"p","1",":","d">>),
      Rec(<<"/","r","/","s","/","m","/","a">>, <<"p","l","a","i","n">>),
      Rec(<<"/","r","/","s","/","n">>, <<"p","l","a","i","n">>) }

Snapshots == SeqsUpTo(WorldRecords, MaxSnapshot)

Doc(resources) == [parses |-> TRUE, Resources |-> resources]
Unparsable == [parses |-> FALSE, Resources |-> <<>>]
Resource(providers) == [Providers |-> providers]
YAML(doc) == PresentCM(MapPut(EmptyMap, encryptionConfigYAMLKey, doc))

\* the encryption-provider-config ConfigMap: absent, without the YAML key,
\* unparsable, without resources, identity only, kms p1 then identity,
\* kms p2 in one rule and kms p1 in the next
EncryptionCMs ==
    { AbsentCM,
      PresentCM(MapPut(EmptyMap, "other", Unparsable)),
      YAML(Unparsable),
      YAML(Doc(<<>>)),
      YAML(Doc(<<Resource(<<IdentityOnly>>)>>)),
      YAML(Doc(<<Resource(<<KmsProvider(<<"p","1">>), IdentityOnly>>)>>)),
      YAML(Doc(<<Resource(<<KmsProvider(<<"p","2">>)>>),
                 Resource(<<KmsProvider(<<"p","1">>)>>)>>)) }

NoWorld ==
    /\ etcdCli = "nil"
    /\ etcdKvs = <<>>
    /\ encCM = AbsentCM
    /\ reportCM = AbsentCM
    /\ lastOp = "init"
    /\ run = NoRun

Init ==
    /\ pc = "idle"
    /\ kmsProviderName = <<"p">>
    /\ k = <<>>
    /\ v = <<>>
    /\ parsed = NoParse
    /\ kvs = <<>>
    /\ latestProviderSeq = 0
    /\ idx = 1
    /\ result = NoResult
    /\ etcdCli \in {"nil", "client"}
    /\ etcdKvs \in Snapshots
    /\ encCM \in EncryptionCMs
    /\ reportCM = AbsentCM
    /\ lastOp = "init"
    /\ run = NoRun
    /\ NoUnit

\* one run of Read, from its call to its return; a panic ends the process
Read ==
    /\ run.err # Panic
    /\ \E f \in Faults :
         run' = ReadRun(etcdCli, etcdKvs, encCM, reportCM, f, kmsProviderName)
    /\ reportCM' = run'.report
    /\ lastOp' = "Read"
    /\ UNCHANGED <<pc, kmsProviderName, k, v, parsed, kvs, latestProviderSeq, idx,
                   result, etcdCli, etcdKvs, encCM, unitVars>>

\* between two runs nothing of the last run is left
Returned(op) ==
    /\ run.err # Panic
    /\ lastOp' = op
    /\ run' = NoRun
    /\ UNCHANGED <<pc, kmsProviderName, k, v, parsed, kvs, latestProviderSeq, idx,
                   result, etcdCli, unitVars>>

\* secrets are written to or deleted from etcd
EtcdChanges ==
    /\ etcdKvs' \in Snapshots \ {etcdKvs}
    /\ UNCHANGED <<encCM, reportCM>>
    /\ Returned("EtcdChanges")

\* the encryption configuration is created, rewritten or deleted
ConfigChanges ==
    /\ encCM' \in EncryptionCMs \ {encCM}
    /\ UNCHANGED <<etcdKvs, reportCM>>
    /\ Returned("ConfigChanges")

\* somebody else deletes the report, or creates it without data
ReportChanges ==
    /\ reportCM' \in {AbsentCM, NoDataCM} \ {reportCM}
    /\ UNCHANGED <<etcdKvs, encCM>>
    /\ Returned("ReportChanges")

Next == Read \/ EtcdChanges \/ ConfigChanges \/ ReportChanges

Spec == Init /\ [][Next]_vars

-----------------------------------------------------------------------------
(* ParseEtcdObject applied to one key and one value *)

InitParse ==
    /\ pc = "parse"
    /\ kmsProviderName \in ProviderNames
    /\ \/ k \in Keys /\ v \in SampleValues
       \/ k \in SampleKeys /\ v \in Values \cup SampleValues
    /\ parsed = NoParse
    /\ kvs = <<>>
    /\ latestProviderSeq = 1
    /\ idx = 1
    /\ result = NoResult
    /\ NoWorld
    /\ NoUnit

\* the classification of the record (k, v)
Parse ==
    /\ pc = "parse"
    /\ parsed' = ParseEtcdObject(k, v, kmsProviderName)
    /\ pc' = "parsed"
    /\ UNCHANGED <<kmsProviderName, k, v, kvs, latestProviderSeq, idx, result>>
    /\ UNCHANGED <<worldVars, runVars, unitVars>>

\* the analysis of the batch that holds the record (k, v) alone
Report ==
    /\ pc = "parsed"
    /\ kvs' = <<[Key |-> k, Value |-> v]>>
    /\ result' = analyzeSecretEncryption(kvs', latestProviderSeq, kmsProviderName)
    /\ idx' = Len(kvs') + 1
    /\ pc' = "reported"
    /\ UNCHANGED <<kmsProviderName, k, v, parsed, latestProviderSeq>>
    /\ UNCHANGED <<worldVars, runVars, unitVars>>

NextParse == Parse \/ Report

SpecParse == InitParse /\ [][NextParse]_vars

-----------------------------------------------------------------------------
(* getLatestProviderSeq applied to one encryption-provider-config ConfigMap *)

\* the declared names of the KMS providers: "p5", "p7", "kp5" (characters before
\* the prefix "p"), "p5x" (characters after the digits), "p" (no digits), "q1"
\* (another provider), "p9223372036854775808" (one more than the largest int)
KmsNames ==
    { <<"p","5">>, <<"p","7">>, <<"k","p","5">>, <<"p","5","x">>, <<"p">>,
      <<"q","1">>,
      <<"p","9","2","2","3","3","7","2","0","3","6","8","5","4","7","7","5","8","0","8">> }

\* the entries of a provider list: a KMS provider or the identity provider
Entries == {KmsProvider(n) : n \in KmsNames} \cup {IdentityOnly}

\* the documents: no rules, one rule, or two rules that share MaxEntries entries
Docs ==
    {Doc(<<>>)}
      \cup {Doc(<<Resource(l)>>) : l \in SeqsUpTo(Entries, MaxEntries)}
      \cup {Doc(<<Resource(SubSeq(l, 1, c)), Resource(SubSeq(l, c + 1, Len(l)))>>) :
              <<l, c>> \in {lc \in SeqsUpTo(Entries, MaxEntries) \X (0..MaxEntries) :
                              lc[2] <= Len(lc[1])}}

\* the ConfigMap: absent, without data, without the YAML key, with a document
\* that does not parse, with a document
ResolveCMs ==
    {AbsentCM, NoDataCM, PresentCM(MapPut(EmptyMap, "wrong-key", Doc(<<>>))),
     YAML(Unparsable)}
      \cup {YAML(d) : d \in Docs}

\* the provider-name prefixes: "p" and "kp"
ResolvePrefixes == { <<"p">>, <<"k","p">> }

\* what a call returned, and whether the Get of the ConfigMap failed in it
ResolveOutcome(getFails, out) ==
    [getFails |-> getFails, seq |-> out.seq, err |-> out.err]

InitResolve ==
    /\ pc = "resolve"
    /\ kmsProviderName \in ResolvePrefixes
    /\ k = <<>>
    /\ v = <<>>
    /\ parsed = NoParse
    /\ kvs = <<>>
    /\ latestProviderSeq = 0
    /\ idx = 1
    /\ result = NoResult
    /\ etcdCli = "client"
    /\ etcdKvs = <<>>
    /\ encCM \in ResolveCMs
    /\ reportCM = AbsentCM
    /\ lastOp = "init"
    /\ run = NoRun
    /\ NoUnit

\* one call of getLatestProviderSeq, from its call to its return
Resolve ==
    /\ pc = "resolve"
    /\ \E getFails \in BOOLEAN :
         resolved' = ResolveOutcome(getFails,
                        getLatestProviderSeq(getFails, encCM, kmsProviderName))
    /\ pc' = "resolved"
    /\ UNCHANGED <<kmsProviderName, k, v, parsed, kvs, latestProviderSeq, idx, result>>
    /\ UNCHANGED <<worldVars, runVars, recCall, drv>>

NextResolve == Resolve

SpecResolve == InitResolve /\ [][NextResolve]_vars

-----------------------------------------------------------------------------
(* Record applied, call after call, to the kms-reporter ConfigMap of a cluster *)

\* the identity lists of the calls: none, "n/a", "n/a" "m/b", "m/b" "n/a"
SampleLists ==
    { <<>>,
      << <<"n","/","a">> >>,
      << <<"n","/","a">>, <<"m","/","b">> >>,
      << <<"m","/","b">>, <<"n","/","a">> >> }

\* a ConfigMap that somebody else wrote: a key of its own and a stale flag
ForeignCM ==
    PresentCM(MapPut(MapPut(EmptyMap, "owner", <<"x">>),
                     encryptedByLatestProviderKey, SprintfBool(TRUE)))

\* a call: its arguments, whether its lookup and its write failed, the
\* ConfigMap it found, the two strings of formatSecretLists (line 79), the
\* error it returned and the ConfigMap it left
RecordOutcome(enc, unenc, flag, getFails, writeFails, before, values, out) ==
    [encryptedSecrets |-> enc, unencryptedSecrets |-> unenc,
     allSecretsUseLatestProvider |-> flag,
     getFails |-> getFails, writeFails |-> writeFails, before |-> before,
     values |-> values, err |-> out.err, after |-> out.cm]

InitRecord ==
    /\ pc = "record"
    /\ kmsProviderName = <<"p">>
    /\ k = <<>>
    /\ v = <<>>
    /\ parsed = NoParse
    /\ kvs = <<>>
    /\ latestProviderSeq = 0
    /\ idx = 1
    /\ result = NoResult
    /\ etcdCli = "client"
    /\ etcdKvs = <<>>
    /\ encCM = AbsentCM
    /\ reportCM \in {AbsentCM, NoDataCM, PresentCM(EmptyMap), ForeignCM}
    /\ lastOp = "init"
    /\ run = NoRun
    /\ NoUnit

\* one call of Record, from its call to its return; a panic ends the process
RecordCall ==
    /\ recCall.err # Panic
    /\ \E enc \in SampleLists, unenc \in SampleLists, flag \in BOOLEAN,
          getFails \in BOOLEAN, writeFails \in BOOLEAN :
         recCall' = RecordOutcome(enc, unenc, flag, getFails, writeFails, reportCM,
                                  formatSecretLists(enc, unenc),
                                  Record(reportCM, getFails, writeFails, enc,
                                         unenc, flag))
    /\ reportCM' = recCall'.after
    /\ UNCHANGED <<pc, kmsProviderName, k, v, parsed, kvs, latestProviderSeq, idx,
                   result, etcdCli, etcdKvs, encCM, runVars, resolved, drv>>

\* between two calls somebody else deletes the ConfigMap
ReportDeleted ==
    /\ recCall.err # Panic
    /\ reportCM.exists
    /\ reportCM' = AbsentCM
    /\ recCall' = NoCall
    /\ UNCHANGED <<pc, kmsProviderName, k, v, parsed, kvs, latestProviderSeq, idx,
                   result, etcdCli, etcdKvs, encCM, runVars, resolved, drv>>

NextRecord == RecordCall \/ ReportDeleted

SpecRecord == InitRecord /\ [][NextRecord]_vars

-----------------------------------------------------------------------------
(* cmd/reporter: main and setupKmsReporter, with the signal and the ticker *)

ErrCreateEtcd == "Failed to create etcd client"
ErrCreateK8s == "Failed to create k8s clients"

\* the deferred etcdClientOperator.Close() (lines 51-55)
Closed(d) == [d EXCEPT !.etcd = "closed", !.closes = @ + 1]

\* the deferred ticker.Stop() (line 76), once the ticker exists
Stopped(d) == [d EXCEPT !.ticker = IF @ = "none" THEN "none" ELSE "stopped",
                        !.tickPending = FALSE]

\* a call of etcdOperator.Read(ctx, *namespace) begins (lines 71 and 83)
ReadBegun(d, from) ==
    [d EXCEPT !.pc = "reading", !.from = from, !.running = @ + 1,
              !.readLive = ~d.cancelled]

\* a step of the driver leaves everything but drv alone
DriverOnly ==
    UNCHANGED <<pc, kmsProviderName, k, v, parsed, kvs, latestProviderSeq, idx,
                result, worldVars, runVars, resolved, recCall>>

InitDriver ==
    /\ pc = "idle"
    /\ kmsProviderName = <<"p">>
    /\ k = <<>>
    /\ v = <<>>
    /\ parsed = NoParse
    /\ kvs = <<>>
    /\ latestProviderSeq = 0
    /\ idx = 1
    /\ result = NoResult
    /\ NoWorld
    /\ resolved = NoResolve
    /\ recCall = NoCall
    /\ drv = DriverStart

\* lines 47-56: the etcd client is created, or setupKmsReporter returns an error
CreateEtcdClient ==
    /\ drv.pc = "start"
    /\ \E ok \in BOOLEAN :
         drv' = IF ok THEN [drv EXCEPT !.pc = "clients", !.etcd = "open"]
                ELSE [drv EXCEPT !.pc = "returned", !.ret = ErrCreateEtcd]
    /\ DriverOnly

\* a driver that creates the Kubernetes clients before it defers the Close
CreateK8sClientsLeaks ==
    /\ drv.pc = "clients"
    /\ \E ok \in BOOLEAN :
         drv' = IF ok THEN [drv EXCEPT !.pc = "startup"]
                ELSE [drv EXCEPT !.pc = "returned", !.ret = ErrCreateK8s]
    /\ DriverOnly

\* lines 61-68: the Kubernetes clients are created, or setupKmsReporter returns
\* an error and the deferred Close runs
CreateK8sClients ==
    /\ drv.pc = "clients"
    /\ \E ok \in BOOLEAN :
         drv' = IF ok THEN [drv EXCEPT !.pc = "startup"]
                ELSE Closed([drv EXCEPT !.pc = "returned", !.ret = ErrCreateK8s])
    /\ DriverOnly

\* line 71: the Read at startup begins
StartupRead ==
    /\ drv.pc = "startup"
    /\ drv' = [ReadBegun(drv, "startup") EXCEPT !.startupReads = @ + 1]
    /\ DriverOnly

\* a driver that returns the error of Read instead of logging it
ReadReturnsErrorEndsLoop ==
    /\ drv.pc = "reading"
    /\ \E err \in {"nil", "error"} :
         drv' = IF err = "nil"
                THEN [drv EXCEPT !.pc = "select", !.running = @ - 1, !.lastRead = err,
                                 !.ticker = IF drv.from = "startup" THEN "running" ELSE @]
                ELSE Closed(Stopped([drv EXCEPT !.pc = "returned", !.running = @ - 1,
                                                !.lastRead = err, !.ret = err]))
    /\ DriverOnly

\* lines 71-76 and 83-85: Read returns nil or an error, which is logged; after
\* the Read at startup the ticker is created; the loop is at its select
ReadReturns ==
    /\ drv.pc = "reading"
    /\ \E err \in {"nil", "error"} :
         drv' = [drv EXCEPT !.pc = "select", !.running = @ - 1, !.lastRead = err,
                            !.ticker = IF drv.from = "startup" THEN "running" ELSE @]
    /\ DriverOnly

\* Read panics in Record (recorder.go:123), which it reaches only under a
\* context that was live when the run began; the deferred calls run and the
\* process ends
ReadPanics ==
    /\ drv.pc = "reading"
    /\ drv.readLive
    /\ drv' = Closed(Stopped([drv EXCEPT !.pc = "crashed", !.running = @ - 1,
                                         !.lastRead = "panic"]))
    /\ DriverOnly

\* lines 79-81: the select takes the case <-ctx.Done()
SelectDone ==
    /\ drv.pc = "select"
    /\ drv.cancelled
    /\ drv' = Closed(Stopped([drv EXCEPT !.pc = "returned", !.ret = "nil"]))
    /\ DriverOnly

\* lines 82-83: the select takes the case <-ticker.C and Read begins
SelectTick ==
    /\ drv.pc = "select"
    /\ drv.tickPending
    /\ drv' = [ReadBegun(drv, "tick") EXCEPT !.tickPending = FALSE,
                                             !.tickReads = @ + 1]
    /\ DriverOnly

\* SIGINT or SIGTERM arrives: the context of signal.NotifyContext is cancelled
Signal ==
    /\ drv.pc \notin {"returned", "crashed"}
    /\ ~drv.cancelled
    /\ drv' = [drv EXCEPT !.cancelled = TRUE]
    /\ DriverOnly

\* the ticker fires: its channel holds one tick, a tick that finds it full is
\* dropped
Tick ==
    /\ drv.ticker = "running"
    /\ drv.ticks < MaxTicks
    /\ drv' = IF drv.tickPending
              THEN [drv EXCEPT !.ticks = @ + 1, !.dropped = @ + 1]
              ELSE [drv EXCEPT !.ticks = @ + 1, !.tickPending = TRUE]
    /\ DriverOnly

NextDriver ==
    \/ CreateEtcdClient \/ CreateK8sClients \/ StartupRead
    \/ ReadReturns \/ ReadPanics \/ SelectDone \/ SelectTick
    \/ Signal \/ Tick

SpecDriver == InitDriver /\ [][NextDriver]_vars

\* the goroutine of the driver is scheduled and a select with a ready case
\* proceeds; the select chooses among its ready cases at random, so a case
\* that is ready again and again is taken; under a cancelled context every
\* call of Read fails and Read ends
SpecDriverFair ==
    /\ SpecDriver
    /\ WF_vars(CreateEtcdClient) /\ WF_vars(CreateK8sClients)
    /\ WF_vars(StartupRead)
    /\ WF_vars(SelectTick)
    /\ SF_vars(SelectDone)
    /\ WF_vars(drv.cancelled /\ (ReadReturns \/ ReadPanics))

-----------------------------------------------------------------------------
(* analyzeSecretEncryption applied to a batch, one record of the loop at a time *)

\* the records of the batches, under the provider-name prefix "p":
\*   /r/s/n/a      k8s:enc:kms:v2:p1:data    encrypted, sequence 1
\*   /r/s/n/b      k8s:enc:kms:v2:p2:data    encrypted, sequence 2
\*   /r/s/n/c      k8s:enc:kms:v2:p0:        encrypted, sequence 0
\*   /r/s/m/a      plain                     plaintext
\*   /r/s/n/a/b/c  plain                     plaintext, the identity n/a again
\*   /r/s/n        plain                     invalid key
\*   /r/s/n/a      k8s:enc:kms:v2:p1         invalid envelope (five fields)
\*   /r/s/m/b      k8s:enc:kms:v2:px:data    sequence not a number
SampleRecords ==
    { Rec(<<"/","r","/","s","/","n","/","a">>, V2 \o <<"p","1",":","d","a","t","a">>),
      Rec(<<"/","r","/","s","/","n","/","b">>, V2 \o <<"p","2",":","d","a","t","a">>),
      Rec(<<"/","r","/","s","/","n","/","c">>, V2 \o <<"p","0",":">>),
      Rec(<<"/","r","/","s","/","m","/","a">>, <<"p","l","a","i","n">>),
      Rec(<<"/","r","/","s","/","n","/","a","/","b","/","c">>, <<"p","l","a","i","n">>),
      Rec(<<"/","r","/","s","/","n">>, <<"p","l","a","i","n">>),
      Rec(<<"/","r","/","s","/","n","/","a">>, V2 \o <<"p","1">>),
      Rec(<<"/","r","/","s","/","m","/","b">>, V2 \o <<"p","x",":","d","a","t","a">>) }

Batches == SeqsUpTo(SampleRecords, MaxBatch)

\* the expected sequences: the identity sentinel and the sequences of the records
ExpectedSeqs == {identityProviderSeq, 0, 1, 2}

InitAnalyze ==
    /\ pc = "analyze"
    /\ kmsProviderName = <<"p">>
    /\ k = <<>>
    /\ v = <<>>
    /\ parsed = NoParse
    /\ kvs \in Batches
    /\ latestProviderSeq \in ExpectedSeqs
    /\ idx = 1
    /\ result = NoResult
    /\ NoWorld
    /\ NoUnit

\* one iteration of the loop `for _, kv := range kvs`
AnalyzeRecord ==
    /\ pc = "analyze"
    /\ idx <= Len(kvs)
    /\ result' = analyzeStep(result, kvs[idx], latestProviderSeq, kmsProviderName)
    /\ idx' = idx + 1
    /\ UNCHANGED <<pc, kmsProviderName, k, v, parsed, kvs, latestProviderSeq>>
    /\ UNCHANGED <<worldVars, runVars, unitVars>>

\* the loop is over: `return result`
AnalyzeReturn ==
    /\ pc = "analyze"
    /\ idx > Len(kvs)
    /\ pc' = "analyzed"
    /\ UNCHANGED <<kmsProviderName, k, v, parsed, kvs, latestProviderSeq, idx, result>>
    /\ UNCHANGED <<worldVars, runVars, unitVars>>

NextAnalyze == AnalyzeRecord \/ AnalyzeReturn

SpecAnalyze == InitAnalyze /\ [][NextAnalyze]_vars

-----------------------------------------------------------------------------
(* getLatestProviderSeq and analyzeSecretEncryption on one provider name: the
   configuration names one KMS provider and every secret of the batch carries
   that name in the fifth field of its envelope *)

\* "p5", "p7", "p05", "p0", "kp5", "kp12", "pp5", "p5x", "p", "q1", "p-5",
\* "p9223372036854775808"
AgreeNames ==
    { <<"p","5">>, <<"p","7">>, <<"p","0","5">>, <<"p","0">>, <<"k","p","5">>,
      <<"k","p","1","2">>, <<"p","p","5">>, <<"p","5","x">>, <<"p">>,
      <<"q","1">>, <<"p","-","5">>, <<"p">> \o TooBig }

\* the configurations that name the KMS provider n, alone or after identity
AgreeCMs(n) ==
    { YAML(Doc(<<Resource(<<KmsProvider(n)>>)>>)),
      YAML(Doc(<<Resource(<<IdentityOnly>>), Resource(<<KmsProvider(n)>>)>>)) }

\* secrets encrypted by the provider n: "k8s:enc:kms:v2:<n>:data"
AgreeRecords(n) ==
    { Rec(<<"/","r","/","s","/","n","/","a">>, V2 \o n \o <<":","d","a","t","a">>),
      Rec(<<"/","r","/","s","/","m","/","b">>, V2 \o n \o <<":">>) }

InitAgree ==
    /\ pc = "resolve"
    /\ kmsProviderName \in ResolvePrefixes
    /\ k = <<>>
    /\ v = <<>>
    /\ parsed = NoParse
    /\ \E n \in AgreeNames :
         /\ encCM \in AgreeCMs(n)
         /\ kvs \in SeqsUpTo(AgreeRecords(n), MaxBatch)
    /\ latestProviderSeq = 0
    /\ idx = 1
    /\ result = NoResult
    /\ etcdCli = "client"
    /\ etcdKvs = <<>>
    /\ reportCM = AbsentCM
    /\ lastOp = "init"
    /\ run = NoRun
    /\ NoUnit

\* reader.go lines 73-79: the resolved sequence is what the batch is analyzed
\* against; an error of the resolution ends the run
AnalyzeResolved ==
    /\ pc = "resolved"
    /\ resolved.err = NoError
    /\ latestProviderSeq' = resolved.seq
    /\ pc' = "analyze"
    /\ UNCHANGED <<kmsProviderName, k, v, parsed, kvs, idx, result>>
    /\ UNCHANGED <<worldVars, runVars, unitVars>>

NextAgree == Resolve \/ AnalyzeResolved \/ AnalyzeRecord \/ AnalyzeReturn

SpecAgree == InitAgree /\ [][NextAgree]_vars

-----------------------------------------------------------------------------
(* Vocabulary of the properties: fields by the positions of the separators *)

StartsWith(s, p) == Len(s) >= Len(p) /\ \A i \in 1..Len(p) : s[i] = p[i]

NumSep(s, c) == Cardinality({i \in 1..Len(s) : s[i] = c})

\* the position of the n-th separator; 0 before the first, Len(s)+1 after the last
SepPos(s, c, n) ==
    IF n = 0 THEN 0
    ELSE IF n > NumSep(s, c) THEN Len(s) + 1
    ELSE CHOOSE i \in 1..Len(s) :
           s[i] = c /\ Cardinality({j \in 1..(i - 1) : s[j] = c}) = n - 1

\* the n-th field of s (from 0), the text between two neighbouring separators
Field(s, c, n) == SubSeq(s, SepPos(s, c, n) + 1, SepPos(s, c, n + 1) - 1)

ValidKey(key) == NumSep(key, "/") >= 4

CarriesMarker(val) == StartsWith(val, KmsHead)

AllDigits(s) == \A i \in 1..Len(s) : s[i] \in Digits

RECURSIVE NumberOf(_)
NumberOf(ds) ==
    IF ds = <<>> THEN 0
    ELSE DigitVal(Head(ds)) * 10 ^ (Len(ds) - 1) + NumberOf(Tail(ds))

Called == pc \in {"parsed", "reported"}

-----------------------------------------------------------------------------
(* C5: for every key with at least 5 slash-delimited segments the returned
   identity is segment 3, a "/", and segment 4, whatever follows and whether or
   not the two segments are empty. *)
IdentityIsSegments3And4 ==
    Called /\ ValidKey(k)
        => parsed.secret = Field(k, "/", 3) \o <<"/">> \o Field(k, "/", 4)

\* a key of six empty segments: the identity is "/" and the sixth is dropped
WitnessTruncatedEmptySegments ==
    /\ pc = "parsed"
    /\ NumSep(k, "/") >= 5
    /\ Field(k, "/", 3) = <<>>
    /\ parsed.secret = <<"/">>
    /\ parsed.err = NoError

(* C6: for every key with fewer than 5 segments the result is the 'invalid key
   format' error with an empty identity and sequence 0, whatever the value. *)
ShortKeyIsInvalidKeyError ==
    Called /\ ~ValidKey(k)
        => /\ parsed.err = ErrInvalidKey
           /\ parsed.secret = <<>>
           /\ parsed.seq = 0

\* "/r/s/n" with the well-formed envelope "k8s:enc:kms:v2:p1:data"
WitnessShortKeyGoodEnvelope ==
    /\ pc = "parsed"
    /\ k = <<"/","r","/","s","/","n">>
    /\ v = V2 \o <<"p","1",":","d","a","t","a">>
    /\ kmsProviderName = <<"p">>
    /\ parsed.encrypted
    /\ parsed.err = ErrInvalidKey

(* C7: for every valid key and every value that does not start with
   "k8s:enc:kms:" the result is encrypted = false, sequence 0 and no error. *)
NoMarkerIsPlaintext ==
    Called /\ ValidKey(k) /\ ~CarriesMarker(v)
        => /\ parsed.encrypted = FALSE
           /\ parsed.seq = 0
           /\ parsed.err = NoError

\* a value of another k8s:enc: scheme, with colon fields after it
WitnessOtherSchemeIsPlaintext ==
    /\ pc = "parsed"
    /\ ValidKey(k)
    /\ StartsWith(v, <<"k","8","s",":","e","n","c",":","a","e","s",":">>)
    /\ NumSep(v, ":") >= 5
    /\ parsed.encrypted = FALSE
    /\ parsed.err = NoError

(* C8 as stated: for every valid key, every provider-name prefix and every
   decimal digit string N, the value "k8s:enc:kms:v2:<prefix><N>:<data>" is
   classified encrypted = true with sequence N and no error. *)
EnvelopeRest == SubSeq(v, Len(V2) + Len(kmsProviderName) + 1, Len(v))

\* the digits N of a value of the form "k8s:enc:kms:v2:<prefix><N>:<data>"
EnvelopeDigits == Field(EnvelopeRest, ":", 0)

IsEnvelopeOfPrefix ==
    /\ StartsWith(v, V2 \o kmsProviderName)
    /\ NumSep(EnvelopeRest, ":") >= 1
    /\ EnvelopeDigits # <<>>
    /\ AllDigits(EnvelopeDigits)

EnvelopeOfAnyPrefixAndNumber ==
    Called /\ ValidKey(k) /\ IsEnvelopeOfPrefix
        => /\ parsed.err = NoError
           /\ parsed.encrypted = TRUE
           /\ parsed.seq = NumberOf(EnvelopeDigits)

\* N is at most 2^63 - 1, the largest int
FitsInt(ds) ==
    LET sig == StripZeros(ds)
        max == <<"9","2","2","3","3","7","2","0","3","6","8","5","4","7","7","5","8","0","7">>
    IN  \/ Len(sig) < Len(max)
        \/ Len(sig) = Len(max) /\ DigitsLeq(sig, max)

(* C8 as amended: the same for every provider-name prefix that holds no ":" and
   every decimal digit string N whose number fits an int. *)
EnvelopeOfColonFreePrefixAndIntNumber ==
    Called /\ ValidKey(k) /\ IsEnvelopeOfPrefix
           /\ ":" \notin Range(kmsProviderName) /\ FitsInt(EnvelopeDigits)
        => /\ parsed.err = NoError
           /\ parsed.encrypted = TRUE
           /\ parsed.seq = NumberOf(EnvelopeDigits)

\* "k8s:enc:kms:v2:p12:d" under the prefix "p": sequence 12
WitnessEnvelopeSeqTwelve ==
    /\ pc = "parsed"
    /\ ValidKey(k)
    /\ kmsProviderName = <<"p">>
    /\ v = V2 \o <<"p","1","2",":","d">>
    /\ parsed.encrypted
    /\ parsed.seq = 12
    /\ parsed.err = NoError

(* C9: for an encrypted value the classification succeeds only when the fifth
   colon field starts with the provider-name prefix and the rest of the field
   is a non-negative integer (digits, no sign), and no successful
   classification carries a negative sequence. *)
FifthField == Field(v, ":", 4)

FifthFieldSuffix ==
    SubSeq(FifthField, Len(kmsProviderName) + 1, Len(FifthField))

EncryptedSuccessNeedsPrefixAndDigits ==
    Called /\ ValidKey(k) /\ CarriesMarker(v) /\ parsed.err = NoError
        => /\ StartsWith(FifthField, kmsProviderName)
           /\ FifthFieldSuffix # <<>>
           /\ AllDigits(FifthFieldSuffix)
           /\ parsed.seq >= 0

(* C10: for every valid key and every value that starts with "k8s:enc:kms:"
   and has fewer than 6 colon-delimited fields the result is the 'invalid
   encrypted value format' error with encrypted = true and sequence 0, and the
   analysis of the record does not list it as unencrypted. *)
ShortEnvelope == ValidKey(k) /\ CarriesMarker(v) /\ NumSep(v, ":") < 5

ShortEnvelopeIsInvalidValueError ==
    /\ Called /\ ShortEnvelope
         => /\ parsed.err = ErrInvalidValue
            /\ parsed.encrypted = TRUE
            /\ parsed.seq = 0
    /\ pc = "reported" /\ ShortEnvelope
         => result.UnencryptedSecrets = <<>>

\* "k8s:enc:kms:v2:p1": five fields, the envelope without its data
WitnessFiveFieldEnvelope ==
    /\ pc = "reported"
    /\ ValidKey(k)
    /\ v = V2 \o <<"p","1">>
    /\ kmsProviderName = <<"p">>
    /\ parsed.err = ErrInvalidValue
    /\ result.UnencryptedSecrets = <<>>

-----------------------------------------------------------------------------
(* Properties of the batch analysis, under SpecAnalyze *)

\* the classification of the i-th record of the batch
Class(i) == ParseEtcdObject(kvs[i].Key, kvs[i].Value, kmsProviderName)

Classified == {i \in 1..Len(kvs) : Class(i).err = NoError}

\* the elements of s at the indices in I, in order
RECURSIVE Pick(_, _, _)
Pick(s, I, i) ==
    IF i > Len(s) THEN <<>>
    ELSE (IF i \in I THEN <<s[i]>> ELSE <<>>) \o Pick(s, I, i + 1)

(* C1: the flag AllSecretsUseLatestProvider is true if and only if every
   record that classifies without error has the expected sequence; so it is
   true for an empty batch and for a batch whose records all fail. *)
FlagIffAllClassifiedMatch ==
    pc = "analyzed"
        => (result.AllSecretsUseLatestProvider
              <=> \A i \in Classified : Class(i).seq = latestProviderSeq)

\* a batch of failing records only: the flag stays true
WitnessAllFailingFlagTrue ==
    /\ pc = "analyzed"
    /\ Len(kvs) >= 2
    /\ Classified = {}
    /\ result.AllSecretsUseLatestProvider

(* C2 as stated: every record that classifies without error appears in exactly
   one of the two lists, its identity in EncryptedSecrets when the value
   carries the envelope marker and in UnencryptedSecrets otherwise, and no
   identity of the batch is present in both lists. *)
Identity(i) == Field(kvs[i].Key, "/", 3) \o <<"/">> \o Field(kvs[i].Key, "/", 4)

Marked(i) == CarriesMarker(kvs[i].Value)

InItsList(i) ==
    IF Marked(i)
    THEN Identity(i) \in Range(result.EncryptedSecrets)
    ELSE Identity(i) \in Range(result.UnencryptedSecrets)

InBothLists == Range(result.EncryptedSecrets) \cap Range(result.UnencryptedSecrets)

EachIdentityInOneList ==
    pc = "analyzed"
        => /\ \A i \in Classified : InItsList(i)
           /\ InBothLists = {}

(* C2 as amended: every record that classifies without error adds exactly one
   entry, its identity, to exactly one list (EncryptedSecrets when the value
   carries the marker, UnencryptedSecrets otherwise); an identity is present in
   both lists only when two classified records of the batch share it, one
   with the marker and one without. *)
EachRecordInOneList ==
    pc = "analyzed"
        => /\ \A i \in Classified : InItsList(i)
           /\ Len(result.EncryptedSecrets)
                = Cardinality({i \in Classified : Marked(i)})
           /\ Len(result.UnencryptedSecrets)
                = Cardinality({i \in Classified : ~Marked(i)})
           /\ \A id \in InBothLists :
                \E i, j \in Classified :
                    /\ Identity(i) = id /\ Marked(i)
                    /\ Identity(j) = id /\ ~Marked(j)

\* an encrypted and a plaintext record of different identities, one list each
WitnessOneEncryptedOnePlain ==
    /\ pc = "analyzed"
    /\ Len(result.EncryptedSecrets) = 1
    /\ Len(result.UnencryptedSecrets) = 1
    /\ InBothLists = {}
    /\ Cardinality(Classified) = 2

(* C3: a record whose classification fails is skipped: the analysis returns the
   two lists and the flag it returns for the batch without the failing
   records. *)
FailingRecordsChangeNothing ==
    pc = "analyzed"
        => result = analyzeSecretEncryption(Pick(kvs, Classified, 1),
                                            latestProviderSeq, kmsProviderName)

\* a failing record first, classified records after it, the flag still true
WitnessFailingRecordSkipped ==
    /\ pc = "analyzed"
    /\ Len(kvs) = 3
    /\ Classified = {2, 3}
    /\ result.AllSecretsUseLatestProvider
    /\ Len(result.EncryptedSecrets) = 2

-----------------------------------------------------------------------------
(* Properties of the Read runs, under Spec *)

\* the last step was a Read run that fetched a non-empty snapshot
FetchedSnapshot ==
    /\ lastOp = "Read"
    /\ etcdCli = "client"
    /\ ~run.faults.etcdGet
    /\ etcdKvs # <<>>

\* the ConfigMap is missing or its Get fails, the YAML key is missing, or the
\* document does not parse
ResolutionFails ==
    \/ run.faults.encGet
    \/ ~encCM.exists
    \/ encryptionConfigYAMLKey \notin DOMAIN encCM.Data
    \/ ~encCM.Data[encryptionConfigYAMLKey].parses

(* C4: when the resolution of the expected sequence fails during a Read run,
   Read returns an error, Record is not called in that run, and the stored
   kms-reporter ConfigMap is what it was before the run. *)
FailedResolutionRecordsNothing ==
    FetchedSnapshot /\ ResolutionFails
        => /\ run.err = ErrLatestSeq
           /\ "Record" \notin Range(run.calls)
           /\ run.recorded = <<>>
           /\ reportCM = run.before

\* an earlier run stored a report; the document is unparsable in this run
WitnessUnparsableKeepsReport ==
    /\ FetchedSnapshot
    /\ encCM = YAML(Unparsable)
    /\ run.err = ErrLatestSeq
    /\ reportCM.exists
    /\ encryptedSecretsKey \in DOMAIN reportCM.Data

-----------------------------------------------------------------------------
(* The vocabulary of the properties of getLatestProviderSeq *)

Resolved == pc = "resolved"

\* the Get succeeded and the ConfigMap holds a document that parses
ParsedDoc ==
    /\ ~resolved.getFails
    /\ encCM.exists
    /\ encryptionConfigYAMLKey \in DOMAIN encCM.Data
    /\ encCM.Data[encryptionConfigYAMLKey].parses

Rules == encCM.Data[encryptionConfigYAMLKey].Resources

\* the places of the document: provider j of rule r, in document order
Positions ==
    UNION {{<<r, j>> : j \in 1..Len(Rules[r].Providers)} : r \in 1..Len(Rules)}

Before(a, b) == a[1] < b[1] \/ (a[1] = b[1] /\ a[2] < b[2])

EntryAt(pos) == Rules[pos[1]].Providers[pos[2]]

IsKms(pos) == EntryAt(pos).KMS # <<>>

NameAt(pos) == EntryAt(pos).KMS[1].Name

\* the prefix and a digit stand in name from place i on
Occurs(name, prefix, i) ==
    /\ i + Len(prefix) <= Len(name)
    /\ SubSeq(name, i, i + Len(prefix) - 1) = prefix
    /\ name[i + Len(prefix)] \in Digits

\* name matches the pattern <prefix><digits>, as a regexp matches a string
Carries(name, prefix) == \E i \in 1..Len(name) : Occurs(name, prefix, i)

\* the digits that follow the leftmost prefix-and-digit of name, all of them
GenDigits(name, prefix) ==
    LET i == CHOOSE x \in 1..Len(name) :
                 Occurs(name, prefix, x)
                   /\ \A y \in 1..(x - 1) : ~Occurs(name, prefix, y)
        d == i + Len(prefix)
        e == CHOOSE x \in d..Len(name) :
                 /\ \A y \in d..x : name[y] \in Digits
                 /\ x = Len(name) \/ name[x + 1] \notin Digits
    IN  SubSeq(name, d, e)

\* n is the number that the digits ds write
IsNumber(n, ds) == Len(StripZeros(ds)) <= 9 /\ n = NumberOf(ds)

Matching(pos) == IsKms(pos) /\ Carries(NameAt(pos), kmsProviderName)

(* C11 as stated: the result is the generation of the first KMS entry, in
   document order over the rules and over the providers of each rule, whose
   name matches the pattern <prefix><digits>; no later entry has a say. *)
FirstMatchingEntryWins ==
    Resolved /\ ParsedDoc
        => \A pos \in Positions :
             Matching(pos) /\ (\A q \in Positions : Before(q, pos) => ~Matching(q))
                => /\ resolved.err = NoError
                   /\ IsNumber(resolved.seq, GenDigits(NameAt(pos), kmsProviderName))

\* the entry matches and its digits write a number that fits an int
Selectable(pos) ==
    Matching(pos) /\ FitsInt(GenDigits(NameAt(pos), kmsProviderName))

(* C11 as amended: the result is the generation of the first KMS entry, in
   document order, whose name matches the pattern and whose digits fit an int;
   an entry that matches with digits beyond an int is passed over, and no entry
   after the selected one has a say. *)
FirstSelectableEntryWins ==
    Resolved /\ ParsedDoc
        => \A pos \in Positions :
             Selectable(pos) /\ (\A q \in Positions : Before(q, pos) => ~Selectable(q))
                => /\ resolved.err = NoError
                   /\ IsNumber(resolved.seq, GenDigits(NameAt(pos), kmsProviderName))

\* "p5" in one rule and "p7" in the next: 5
WitnessFiveBeforeSeven ==
    /\ Resolved /\ ParsedDoc
    /\ kmsProviderName = <<"p">>
    /\ Len(Rules) = 2
    /\ \E a, b \in Positions :
         /\ a[1] = 1 /\ b[1] = 2
         /\ IsKms(a) /\ NameAt(a) = <<"p","5">>
         /\ IsKms(b) /\ NameAt(b) = <<"p","7">>
         /\ \A q \in Positions : Before(q, a) => ~IsKms(q)
    /\ resolved.seq = 5
    /\ resolved.err = NoError

(* C12: for every document that parses and in which no rule holds a KMS
   provider whose name matches the pattern (no rules, no providers, identity
   providers only, KMS names that do not match), the result is the identity
   sentinel -1 and no error. *)
NoMatchingKmsGivesIdentity ==
    Resolved /\ ParsedDoc /\ (\A pos \in Positions : ~Matching(pos))
        => /\ resolved.seq = -1
           /\ resolved.err = NoError

\* two rules, KMS providers in both, none of them matching: "q1", "p"
WitnessOnlyOtherKmsNames ==
    /\ Resolved /\ ParsedDoc
    /\ kmsProviderName = <<"p">>
    /\ \E a, b \in Positions :
         /\ a[1] # b[1]
         /\ IsKms(a) /\ NameAt(a) = <<"q","1">>
         /\ IsKms(b) /\ NameAt(b) = <<"p">>
    /\ \A pos \in Positions : ~Matching(pos)
    /\ resolved.seq = -1
    /\ resolved.err = NoError

\* the digits of a name that is the prefix followed by digits, else none
Suffix(name, prefix) ==
    IF StartsWith(name, prefix) THEN SubSeq(name, Len(prefix) + 1, Len(name))
    ELSE <<>>

\* the entry is a KMS provider whose whole name is the prefix and then digits
\* that fit an int
Exact(pos) ==
    /\ IsKms(pos)
    /\ Suffix(NameAt(pos), kmsProviderName) # <<>>
    /\ AllDigits(Suffix(NameAt(pos), kmsProviderName))
    /\ FitsInt(Suffix(NameAt(pos), kmsProviderName))

(* C13: a KMS entry is selected only when its name is the prefix followed by
   digits; an entry with characters before the prefix or after the digits, or
   without digits, is skipped without error and the scan goes on: the result is
   decided by the first entry whose whole name is the prefix and digits, and is
   the identity sentinel when there is none. *)
OnlyWholeNameMatchIsSelected ==
    Resolved /\ ParsedDoc
        => /\ resolved.err = NoError
           /\ \A pos \in Positions :
                Exact(pos) /\ (\A q \in Positions : Before(q, pos) => ~Exact(q))
                   => IsNumber(resolved.seq, Suffix(NameAt(pos), kmsProviderName))
           /\ (\A pos \in Positions : ~Exact(pos)) => resolved.seq = -1

(* C14: getLatestProviderSeq returns an error and the sequence 0, never a
   resolved one, when the ConfigMap cannot be fetched, when it lacks the key
   encryption-provider-config.yaml, or when the document does not parse; for
   every document that parses it returns without error. *)
ErrorIffNoParsedDocument ==
    Resolved
        => /\ resolved.getFails \/ ~encCM.exists
                => resolved.err = ErrGetEncryptionCM /\ resolved.seq = 0
           /\ ~resolved.getFails /\ encCM.exists
                /\ encryptionConfigYAMLKey \notin DOMAIN encCM.Data
                => resolved.err = ErrNoYAMLKey /\ resolved.seq = 0
           /\ ~resolved.getFails /\ encCM.exists
                /\ encryptionConfigYAMLKey \in DOMAIN encCM.Data
                /\ ~encCM.Data[encryptionConfigYAMLKey].parses
                => resolved.err = ErrUnmarshal /\ resolved.seq = 0
           /\ ParsedDoc => resolved.err = NoError

\* a ConfigMap whose only key is "wrong-key", fetched without failure
WitnessWrongKeyIsError ==
    /\ Resolved
    /\ ~resolved.getFails
    /\ encCM.exists
    /\ DOMAIN encCM.Data = {"wrong-key"}
    /\ resolved.err = ErrNoYAMLKey

-----------------------------------------------------------------------------
(* Properties of the Read runs on an empty snapshot, under Spec *)

\* the last step was a Read run whose fetch succeeded and found no record
FetchedNothing ==
    /\ lastOp = "Read"
    /\ etcdCli = "client"
    /\ ~run.faults.etcdGet
    /\ etcdKvs = <<>>

(* C15: when the snapshot of the secrets prefix is empty, Read returns nil, its
   only external call is the etcd Get: it neither resolves the expected
   sequence nor calls Record, and the stored kms-reporter ConfigMap is what it
   was before the run. *)
EmptySnapshotDoesNothing ==
    FetchedNothing
        => /\ run.err = NoError
           /\ run.calls = <<"etcd.Get">>
           /\ run.recorded = <<>>
           /\ reportCM = run.before

\* an earlier run stored a report; etcd is empty and the configuration is
\* unparsable in this run
WitnessEmptyKeepsReport ==
    /\ FetchedNothing
    /\ encCM = YAML(Unparsable)
    /\ run.err = NoError
    /\ reportCM.exists
    /\ encryptedSecretsKey \in DOMAIN reportCM.Data

-----------------------------------------------------------------------------
(* Properties of the recorder, under SpecRecord *)

\* the last step was a call of Record
Recorded == recCall.err # "not called"

AllSecretsText == <<"A","L","L","_","S","E","C","R","E","T","S">>

\* text is the entries of list, in order, with a comma between neighbours
CommaJoined(list, text) ==
    /\ list # <<>>
    /\ NumSep(text, ",") = Len(list) - 1
    /\ \A i \in 1..Len(list) : Field(text, ",", i - 1) = list[i]

(* C16: formatSecretLists gives, for two non-empty lists, each list
   comma-joined in order; for exactly one non-empty list, "ALL_SECRETS" on its
   side and "" on the other; for two empty lists, "" and "". *)
FormattedByEmptiness ==
    Recorded
        => LET e == recCall.encryptedSecrets
               u == recCall.unencryptedSecrets
               ev == recCall.values[1]
               uv == recCall.values[2]
           IN  /\ e # <<>> /\ u # <<>> => CommaJoined(e, ev) /\ CommaJoined(u, uv)
               /\ e # <<>> /\ u = <<>> => ev = AllSecretsText /\ uv = <<>>
               /\ e = <<>> /\ u # <<>> => ev = <<>> /\ uv = AllSecretsText
               /\ e = <<>> /\ u = <<>> => ev = <<>> /\ uv = <<>>

\* "n/a" "m/b" encrypted and "m/b" "n/a" unencrypted: "n/a,m/b" and "m/b,n/a"
WitnessBothListsJoined ==
    /\ Recorded
    /\ Len(recCall.encryptedSecrets) = 2
    /\ Len(recCall.unencryptedSecrets) = 2
    /\ recCall.encryptedSecrets # recCall.unencryptedSecrets
    /\ recCall.values[1] = <<"n","/","a",",","m","/","b">>
    /\ recCall.values[2] = <<"m","/","b",",","n","/","a">>

\* the last step was a call of Record that returned nil
Succeeded == Recorded /\ recCall.err = NoError

FlagKey == "ENCRYPTED_BY_LATEST_SEQ"

(* C17: after every successful Record call, on the create path and on the
   update path, the kms-reporter ConfigMap holds the key ENCRYPTED_BY_LATEST_SEQ
   if and only if the unencrypted list of the call was empty, with the value
   "true" or "false" of the argument allSecretsUseLatestProvider; a stale key
   of an earlier report is removed. *)
FlagKeyIffNoUnencrypted ==
    Succeeded
        => /\ reportCM.exists
           /\ FlagKey \in DOMAIN reportCM.Data <=> recCall.unencryptedSecrets = <<>>
           /\ FlagKey \in DOMAIN reportCM.Data
                => reportCM.Data[FlagKey] =
                     IF recCall.allSecretsUseLatestProvider
                     THEN <<"t","r","u","e">> ELSE <<"f","a","l","s","e">>

\* an update of a report that held the key, with an unencrypted secret
WitnessStaleFlagRemoved ==
    /\ Succeeded
    /\ recCall.before.exists
    /\ FlagKey \in DOMAIN recCall.before.Data
    /\ encryptedSecretsKey \in DOMAIN recCall.before.Data
    /\ recCall.unencryptedSecrets # <<>>
    /\ FlagKey \notin DOMAIN reportCM.Data

-----------------------------------------------------------------------------
(* Properties of the report of a whole Read run, under Spec *)

\* the last step was a Read run whose Record call stored a report
StoredReport ==
    /\ lastOp = "Read"
    /\ run.recorded # <<>>
    /\ run.recordErr = NoError

(* C18: across a whole Read run, the stored report carries the key
   ENCRYPTED_BY_LATEST_SEQ only when every record of the fetched batch was
   encrypted: a batch that holds a record without the envelope marker, be it
   one that was skipped because its classification failed, never produces a
   report with that key. *)
FlagKeyOnlyIfAllRecordsEncrypted ==
    StoredReport /\ FlagKey \in DOMAIN reportCM.Data
        => \A i \in 1..Len(run.kvs) : CarriesMarker(run.kvs[i].Value)

-----------------------------------------------------------------------------
(* Properties of the paths of Record, under SpecRecord *)

\* the ConfigMap holds the two strings of the last call
HoldsValues ==
    /\ reportCM.exists
    /\ {"ENCRYPTED", "UNENCRYPTED"} \subseteq DOMAIN reportCM.Data
    /\ reportCM.Data["ENCRYPTED"] = recCall.values[1]
    /\ reportCM.Data["UNENCRYPTED"] = recCall.values[2]

(* C19: Record creates the kms-reporter ConfigMap when the lookup reports
   NotFound and updates it when the lookup succeeds; when the lookup fails with
   another error it returns 'failed to get ConfigMap' and neither creates nor
   updates; a failing create or update is returned as an error. *)
CreatesUpdatesOrReturnsError ==
    Recorded
        => /\ recCall.getFails
                => recCall.err = "failed to get ConfigMap" /\ reportCM = recCall.before
           /\ ~recCall.getFails /\ ~recCall.before.exists /\ ~recCall.writeFails
                => recCall.err = NoError /\ HoldsValues
           /\ ~recCall.getFails /\ ~recCall.before.exists /\ recCall.writeFails
                => recCall.err = "failed to create ConfigMap"
                     /\ reportCM = recCall.before
           /\ ~recCall.getFails /\ recCall.before.exists /\ ~recCall.writeFails
                => recCall.err = NoError /\ HoldsValues
           /\ ~recCall.getFails /\ recCall.before.exists /\ recCall.writeFails
                => recCall.err = "failed to update ConfigMap"
                     /\ reportCM = recCall.before

ReportKeys == {"ENCRYPTED", "UNENCRYPTED", "ENCRYPTED_BY_LATEST_SEQ"}

\* the entries of a data map under the three keys of the report
ReportOf(data) == [x \in DOMAIN data \cap ReportKeys |-> data[x]]

\* what one call with the arguments of the last call stores in a namespace
\* that has no kms-reporter ConfigMap
StoredAfresh ==
    Record(AbsentCM, FALSE, FALSE, recCall.encryptedSecrets,
           recCall.unencryptedSecrets, recCall.allSecretsUseLatestProvider).cm.Data

(* C20: after any sequence of successful Record calls in one namespace, the
   entries ENCRYPTED, UNENCRYPTED and ENCRYPTED_BY_LATEST_SEQ of the
   kms-reporter ConfigMap depend on the arguments of the last call only: they
   are what a single call with those arguments on a namespace without the
   ConfigMap would have stored. *)
ReportDependsOnLastCallOnly ==
    Succeeded => ReportOf(reportCM.Data) = ReportOf(StoredAfresh)

\* a second successful call, on a report with all three keys, that changes
\* both strings and drops the flag key
WitnessReportReplaced ==
    /\ Succeeded
    /\ recCall.before.exists
    /\ ReportKeys \subseteq DOMAIN recCall.before.Data
    /\ recCall.before.Data["ENCRYPTED"] # recCall.values[1]
    /\ recCall.before.Data["UNENCRYPTED"] # recCall.values[2]
    /\ recCall.before.Data["ENCRYPTED"] # <<>>
    /\ recCall.unencryptedSecrets # <<>>
    /\ ReportOf(reportCM.Data) = ReportOf(StoredAfresh)

-----------------------------------------------------------------------------
(* Properties of the order of a Read run, under Spec *)

\* what the resolution and the analysis of this run give, from the cluster
ResolvedNow == getLatestProviderSeq(run.faults.encGet, encCM, kmsProviderName)

AnalyzedNow == analyzeSecretEncryption(etcdKvs, ResolvedNow.seq, kmsProviderName)

(* C21: in a Read run whose fetch returns a non-empty snapshot and whose
   resolution succeeds, Record is called exactly once, after the fetch and the
   resolution, with exactly the two lists and the flag that the analysis of
   that snapshot against the sequence resolved in that run gives; an error that
   Record returns is returned by Read as an error. *)
RecordsOnceWhatWasAnalyzed ==
    FetchedSnapshot /\ ~ResolutionFails
        => /\ run.calls = <<"etcd.Get", "ConfigMaps.Get", "Record">>
           /\ run.kvs = etcdKvs
           /\ run.seq = ResolvedNow.seq
           /\ run.recorded =
                << [encryptedSecrets |-> AnalyzedNow.EncryptedSecrets,
                    unencryptedSecrets |-> AnalyzedNow.UnencryptedSecrets,
                    allSecretsUseLatestProvider |->
                        AnalyzedNow.AllSecretsUseLatestProvider] >>
           /\ reportCM = Record(run.before, run.faults.reportGet, run.faults.write,
                                AnalyzedNow.EncryptedSecrets,
                                AnalyzedNow.UnencryptedSecrets,
                                AnalyzedNow.AllSecretsUseLatestProvider).cm
           /\ run.recordErr = NoError => run.err = NoError
           /\ run.recordErr \in {"failed to get ConfigMap",
                                  "failed to create ConfigMap",
                                  "failed to update ConfigMap"}
                => run.err = "failed to store secret encryption status in recorder"

\* an encrypted record of sequence 1 under the expected sequence 2: Record is
\* given the flag false, its update fails and Read returns the error
WitnessRecorderFailureReturned ==
    /\ FetchedSnapshot /\ ~ResolutionFails
    /\ run.seq = 2
    /\ Len(run.recorded) = 1
    /\ run.recorded[1].encryptedSecrets # <<>>
    /\ ~run.recorded[1].allSecretsUseLatestProvider
    /\ run.recordErr = "failed to update ConfigMap"
    /\ run.err = "failed to store secret encryption status in recorder"

(* C22: when the etcd client is nil, or when the etcd Get fails, Read returns
   the error 'etcd client is nil' or 'failed to get key from etcd', without
   fetching the configuration and without calling Record. *)
EtcdFailureEndsRun ==
    /\ lastOp = "Read" /\ etcdCli = "nil"
         => /\ run.err = "etcd client is nil"
            /\ run.calls = <<>>
            /\ run.recorded = <<>>
            /\ reportCM = run.before
    /\ lastOp = "Read" /\ etcdCli = "client" /\ run.faults.etcdGet
         => /\ run.err = "failed to get key from etcd"
            /\ run.calls = <<"etcd.Get">>
            /\ run.recorded = <<>>
            /\ reportCM = run.before

\* the Get fails over secrets and a configuration that would resolve; the
\* report of an earlier run stays
WitnessGetFailureKeepsReport ==
    /\ lastOp = "Read"
    /\ etcdCli = "client"
    /\ run.faults.etcdGet
    /\ etcdKvs # <<>>
    /\ ~ResolutionFails
    /\ run.err = "failed to get key from etcd"
    /\ reportCM.exists
    /\ encryptedSecretsKey \in DOMAIN reportCM.Data

-----------------------------------------------------------------------------
(* Properties of the analysis of a batch, under SpecAnalyze *)

\* every record of the batch has a valid key and a value without the marker
OnlyPlaintext ==
    \A i \in 1..Len(kvs) : ValidKey(kvs[i].Key) /\ ~Marked(i)

(* C23: when the expected sequence is the identity sentinel -1 (the
   configuration has no KMS provider), a batch of plaintext records only
   matches the expectation: AllSecretsUseLatestProvider is returned true. *)
PlaintextMatchesIdentity ==
    pc = "analyzed" /\ latestProviderSeq = -1 /\ OnlyPlaintext
        => result.AllSecretsUseLatestProvider = TRUE

\* the n-th smallest index of the set I
Nth(I, n) == CHOOSE i \in I : Cardinality({j \in I : j < i}) = n - 1

\* list is the identities of the records at the indices I, in batch order
IdentitiesOf(I, list) ==
    /\ Len(list) = Cardinality(I)
    /\ \A n \in 1..Len(list) : list[n] = Identity(Nth(I, n))

(* C24: EncryptedSecrets is exactly the identities of the successfully
   classified encrypted records in batch order, UnencryptedSecrets the same
   for the plaintext records, repeated identities kept; the two lengths sum to
   the number of successfully classified records. *)
ListsKeepOrderAndMultiplicity ==
    pc = "analyzed"
        => /\ IdentitiesOf({i \in Classified : Marked(i)}, result.EncryptedSecrets)
           /\ IdentitiesOf({i \in Classified : ~Marked(i)}, result.UnencryptedSecrets)
           /\ Len(result.EncryptedSecrets) + Len(result.UnencryptedSecrets)
                = Cardinality(Classified)

\* three encrypted records, the first and the last of one identity
WitnessRepeatedIdentityKept ==
    /\ pc = "analyzed"
    /\ Len(result.EncryptedSecrets) = 3
    /\ result.EncryptedSecrets[1] = result.EncryptedSecrets[3]
    /\ result.EncryptedSecrets[1] # result.EncryptedSecrets[2]

(* C25: while a batch is processed, AllSecretsUseLatestProvider starts true and
   is monotonic: once an iteration has set it to false, no later iteration of
   the same batch sets it back to true. *)
FlagStartsTrueAndNeverReturns ==
    /\ result.AllSecretsUseLatestProvider = TRUE
    /\ [][~result.AllSecretsUseLatestProvider
            => ~result.AllSecretsUseLatestProvider']_vars

\* the flag is false after a batch whose last record has the expected sequence
WitnessFlagStaysFalse ==
    /\ pc = "analyzed"
    /\ Len(kvs) >= 2
    /\ Len(kvs) \in Classified
    /\ Class(Len(kvs)).seq = latestProviderSeq
    /\ ~result.AllSecretsUseLatestProvider

-----------------------------------------------------------------------------
(* The driver: setupKmsReporter between its start and its return *)

InLoop == drv.pc \in {"select", "reading"} /\ drv.ticker = "running"

TicksInChannel == IF drv.tickPending THEN 1 ELSE 0

\* a Read begins for a tick
TickReadBegins == drv.pc = "select" /\ drv'.pc = "reading"

\* a Read ends by returning err
ReadEndsWith(err) == drv.pc = "reading" /\ drv'.pc # "reading" /\ drv'.lastRead = err

ReadOnceAtStartup ==
    /\ drv.startupReads <= 1
    /\ drv.ticker # "none" => drv.startupReads = 1
    /\ drv.tickReads > 0 => drv.ticker # "none"

\* C26 as stated: Read runs once at startup and once for every tick of the
\* ticker, never two runs at a time; a Read that returns an error leaves the
\* loop running; and while no signal has arrived every tick starts a Read.
ReadOncePerTick ==
    /\ [](drv.running <= 1 /\ ReadOnceAtStartup)
    /\ [](InLoop => drv.tickReads + TicksInChannel = drv.ticks)
    /\ [][ReadEndsWith("error") => drv'.pc = "select"]_vars
    /\ (drv.pc = "select" /\ drv.tickPending /\ ~drv.cancelled)
          ~> ((drv.pc = "reading" /\ drv.from = "tick") \/ drv.cancelled)

\* C26 (amended): Read runs once at startup and once for every tick taken from
\* the channel of the ticker, which holds one tick and drops the ticks that
\* find it full; never two runs at a time; a Read that returns an error leaves
\* the loop at its select; and while no signal has arrived a tick waiting in
\* the channel at the select starts a Read.
ReadOncePerDeliveredTick ==
    /\ [](drv.running <= 1 /\ ReadOnceAtStartup)
    /\ [](InLoop => drv.tickReads + TicksInChannel + drv.dropped = drv.ticks)
    /\ [][TickReadBegins => drv.tickPending /\ ~drv'.tickPending
                               /\ drv'.tickReads = drv.tickReads + 1]_vars
    /\ [][ReadEndsWith("error") => drv'.pc = "select"]_vars
    /\ (drv.pc = "select" /\ drv.tickPending /\ ~drv.cancelled)
          ~> ((drv.pc = "reading" /\ drv.from = "tick") \/ drv.cancelled)

WitnessReadAfterFailedReadAndDroppedTick == drv.pc = "reading" /\ drv.from = "tick" /\ drv.lastRead = "error" /\ ~drv.cancelled /\ drv.dropped = 1 /\ drv.tickReads = 2

\* C27: once the context is cancelled and the loop is at its select (the Read
\* in flight, if any, has returned), setupKmsReporter eventually returns nil;
\* the etcd client is closed at most once, and exactly once on every return
\* after it was created, a failure to create the Kubernetes clients included.
ReturnsNilAndClosesOnce ==
    /\ (drv.cancelled /\ drv.pc = "select") ~> (drv.pc = "returned" /\ drv.ret = "nil")
    /\ [](drv.closes <= 1)
    /\ [](drv.pc = "returned" /\ drv.etcd # "none"
            => drv.closes = 1 /\ drv.etcd = "closed")
    /\ [](drv.pc = "returned" /\ drv.etcd = "none"
            => drv.closes = 0 /\ drv.ret = ErrCreateEtcd)

WitnessReturnedNilAfterTickRead == drv.pc = "returned" /\ drv.ret = "nil" /\ drv.cancelled /\ drv.tickReads >= 1 /\ drv.closes = 1 /\ drv.etcd = "closed"

-----------------------------------------------------------------------------
(* Record on a kms-reporter ConfigMap without a data map *)

(* C29: Record completes for every state of an existing kms-reporter
   ConfigMap: also when the ConfigMap has no data map, the call either writes
   the two report strings and returns nil or returns an error; it never
   aborts the process. *)
RecordCompletesOnEveryConfigMap ==
    Recorded /\ recCall.before.exists
        => /\ recCall.err \in {NoError, ErrGetCM, ErrUpdateCM}
           /\ recCall.err = NoError => HoldsValues
           /\ recCall.err # NoError => reportCM = recCall.before

-----------------------------------------------------------------------------
(* The select of the driver after the termination signal *)

\* C30: once the context is cancelled the loop begins no further Read: at a
\* select where a tick and the cancellation are both pending the loop returns.
NoReadBeginsAfterCancellation ==
    [][drv.pc = "select" /\ drv.cancelled => drv'.pc # "reading"]_vars

-----------------------------------------------------------------------------
(* The resolver and the classifier on the same provider name, under SpecAgree *)

\* the one KMS provider name of the configuration
ConfiguredName ==
    CHOOSE n \in AgreeNames :
      KmsProvider(n) \in Range(AllProviders(encCM.Data[encryptionConfigYAMLKey].Resources))

\* getLatestProviderSeq selected the KMS provider of the configuration
SelectedConfigured == resolved.err = NoError /\ resolved.seq # identityProviderSeq

(* C28: when getLatestProviderSeq selects the KMS provider name P and returns
   N, every secret whose envelope has P as its fifth field is classified by
   ParseEtcdObject without error with generation N, and the batch of such
   secrets yields AllSecretsUseLatestProvider = true. *)
ClassifierAgreesWithResolver ==
    pc = "analyzed" /\ SelectedConfigured
        => /\ \A i \in 1..Len(kvs) :
                Field(kvs[i].Value, ":", 4) = ConfiguredName
                    => Class(i).err = NoError /\ Class(i).seq = resolved.seq
           /\ result.AllSecretsUseLatestProvider = TRUE

=============================================================================
